---- MODULE Spec2Model ----
(***************************************************************************)
(* Model of the shipyard client (client/client.go): the Manager facade,    *)
(* its request executor doRequest and the public operations that call it.  *)
(*                                                                         *)
(* A call is split at the points where the Go code blocks or hands over    *)
(* to a collaborator: the call-site prologue (json.Marshal), the request   *)
(* construction and its hand-over to the transport, the transport's        *)
(* answer together with the status interpretation, and the decode of the   *)
(* response body.  Several callers may be inside a call on the same        *)
(* Manager at once.                                                        *)
(***************************************************************************)
EXTENDS Integers, Sequences, FiniteSets, TLC

VARIABLES
    config,   \* Manager.config: the ShipyardConfig given to NewManager
    pc,       \* per caller: where its call stands
    op,       \* per caller: the operation it is in
    arg,      \* per caller: the operation's input
    rd,       \* per caller: the arguments of doRequest (path, method, expectedStatus, b)
    wire,     \* per caller: the requests its call has handed to the transport
    resp,     \* per caller: what the transport answered, with the body stream's position
    dr,       \* per caller: what doRequest returned
    dec,      \* per caller: what the call-site's decoder consumed
    ret       \* per caller: what the operation returned

vars == <<config, pc, op, arg, rd, wire, resp, dr, dec, ret>>

(***************************************************************************)
(* Bounds and input sets                                                   *)
(***************************************************************************)
NumCallers == 2
Callers == 1..NumCallers

\* The caller the sequential specification drives.
Solo == {1}

StatusUnauthorized == 401

\* A base URL that url.Parse rejects ("missing protocol scheme").
BadUrl == ":"

Configs ==
    { [Url |-> "http://h", ServiceKey |-> "sk", Username |-> "u", Token |-> "t"],
      [Url |-> "http://h", ServiceKey |-> "sk", Username |-> "",  Token |-> ""],
      [Url |-> "http://h", ServiceKey |-> "",   Username |-> "u", Token |-> "t"],
      [Url |-> "http://h", ServiceKey |-> "",   Username |-> "",  Token |-> ""],
      [Url |-> BadUrl,     ServiceKey |-> "",   Username |-> "u", Token |-> "t"] }

ConcConfigs ==
    { [Url |-> "http://h", ServiceKey |-> "sk", Username |-> "u", Token |-> "t"],
      [Url |-> "http://h", ServiceKey |-> "",   Username |-> "u", Token |-> "t"] }

Statuses == {200, 201, 204, 401, 500}
ConcStatuses == {200, 204, 401}

\* Response bodies, as the sequence of their JSON tokens.
Bodies ==
    { <<>>, <<"null">>, <<"[", "]">>, <<"[", "a", "b", "]">>,
      <<"{", "a", "}">>, <<"forbidden">> }
ConcBodies == { <<"null">>, <<"[", "a", "b", "]">> }

\* Inputs of an operation: an identifier, the run operation's count and
\* pull, and whether json.Marshal accepts the domain record.
Args ==
    [id : {"x1"}, count : {3}, pull : {TRUE}, encodable : BOOLEAN]

(***************************************************************************)
(* Values                                                                  *)
(***************************************************************************)
\* A Go slice or pointer result: nil, or non-nil with its contents.
NilValue == [isNil |-> TRUE, items |-> <<>>]
EmptyValue == [isNil |-> FALSE, items |-> <<>>]

NoErr == [kind |-> "nil", msg |-> <<>>]
ErrUnauthorized == [kind |-> "ErrUnauthorized", msg |-> <<>>]
MarshalErr == [kind |-> "marshal", msg |-> <<>>]
NewRequestErr == [kind |-> "newRequest", msg |-> <<>>]
TransportErr == [kind |-> "transport", msg |-> <<>>]
ReadErr == [kind |-> "read", msg |-> <<>>]
DecodeErr == [kind |-> "decode", msg |-> <<>>]
\* errors.New(text)
errorsNew(text) == [kind |-> "errorString", msg |-> text]

NoRd == [path |-> "", method |-> "", expectedStatus |-> 0, b |-> <<>>]
NoResp == [got |-> "none", StatusCode |-> 0, Body |-> <<>>, pos |-> 0, readOk |-> TRUE]
NoDr == [called |-> FALSE, hasResp |-> FALSE, err |-> NoErr]
NoDec == [done |-> FALSE, input |-> <<>>]
NoRet == [result |-> NilValue, err |-> NoErr]
NoArg == [id |-> "", count |-> 0, pull |-> FALSE, encodable |-> TRUE]

(***************************************************************************)
(* The operations                                                          *)
(***************************************************************************)
ListOps ==
    {"Containers", "Run", "Engines", "Events", "Accounts", "Roles", "ServiceKeys"}
ObjectOps ==
    {"GetContainer", "GetEngine", "Info", "Role", "Login", "NewServiceKey"}
NoResultOps ==
    {"Destroy", "AddEngine", "RemoveEngine", "AddAccount", "DeleteAccount",
     "ChangePassword", "RemoveServiceKey"}
Ops == ListOps \cup ObjectOps \cup NoResultOps

ConcOps == {"Containers", "Destroy"}

\* Operations that json.Marshal a domain record, and those that marshal a
\* map[string]string (which json.Marshal never rejects).
RecordInputOps ==
    {"Run", "Destroy", "AddEngine", "AddAccount", "DeleteAccount",
     "NewServiceKey", "RemoveServiceKey"}
MapInputOps == {"Login", "ChangePassword"}

OpMethod(o) ==
    CASE o \in {"Containers", "Engines", "GetContainer", "GetEngine", "Info",
                "Events", "Accounts", "Roles", "Role", "ServiceKeys"} -> "GET"
      [] o \in {"Run", "AddEngine", "AddAccount", "Login", "ChangePassword",
                "NewServiceKey"} -> "POST"
      [] o \in {"Destroy", "RemoveEngine", "DeleteAccount", "RemoveServiceKey"} -> "DELETE"

OpExpectedWrong(o) ==
    CASE o \in {"Containers", "Engines", "GetContainer", "GetEngine", "Info",
                "Events", "Accounts", "Roles", "Role", "Login", "ChangePassword",
                "ServiceKeys", "NewServiceKey"} -> 200
      [] o \in {"Run", "AddEngine", "AddAccount"} -> 201
      [] o \in {"Destroy", "RemoveEngine", "DeleteAccount", "RemoveServiceKey"} -> 204

OpExpected(o) ==
    CASE o \in {"Containers", "Engines", "GetContainer", "GetEngine", "Info",
                "Events", "Accounts", "Roles", "Role", "Login", "ChangePassword",
                "ServiceKeys", "NewServiceKey"} -> 200
      [] o \in {"Run", "AddEngine"} -> 201
      [] o \in {"Destroy", "RemoveEngine", "AddAccount", "DeleteAccount",
                "RemoveServiceKey"} -> 204

\* fmt's %v of a bool.
FormatBool(x) == IF x THEN "true" ELSE "false"

OpPath(o, a) ==
    CASE o = "Containers" -> "/api/containers"
      [] o = "Run" ->
            "/api/containers?count=" \o ToString(a.count) \o "&pull=" \o FormatBool(a.pull)
      [] o \in {"Destroy", "GetContainer"} -> "/api/containers/" \o a.id
      [] o \in {"Engines", "AddEngine"} -> "/api/engines"
      [] o \in {"RemoveEngine", "GetEngine"} -> "/api/engines/" \o a.id
      [] o = "Info" -> "/api/cluster/info"
      [] o = "Events" -> "/api/events"
      [] o \in {"Accounts", "AddAccount", "DeleteAccount"} -> "/api/accounts"
      [] o = "Roles" -> "/api/roles"
      [] o = "Role" -> "/api/roles/" \o a.id
      [] o = "Login" -> "/auth/login"
      [] o = "ChangePassword" -> "/account/changepassword"
      [] o \in {"ServiceKeys", "NewServiceKey", "RemoveServiceKey"} -> "/api/servicekeys"

\* The value the operation's result variable holds when it is handed to
\* the decoder: `x := []T{}` and `role := &shipyard.Role{}` are non-nil,
\* `var x []T` and `var x *T` are nil.
OpInitial(o) ==
    IF o \in {"Containers", "Engines", "Events", "Accounts", "Roles", "Role",
              "ServiceKeys"}
    THEN EmptyValue
    ELSE NilValue

OpKind(o) ==
    IF o \in ListOps THEN "list" ELSE IF o \in ObjectOps THEN "object" ELSE "none"

\* json.Marshal of the operation's input: nil for an operation without
\* input, an error for a record the codec rejects.
Marshal(o, a) ==
    IF o \in RecordInputOps
    THEN IF a.encodable
         THEN [b |-> <<"{", a.id, "}">>, err |-> NoErr]
         ELSE [b |-> <<>>, err |-> MarshalErr]
    ELSE IF o \in MapInputOps
    THEN [b |-> <<"{", a.id, "}">>, err |-> NoErr]
    ELSE [b |-> <<>>, err |-> NoErr]

(***************************************************************************)
(* doRequest                                                               *)
(***************************************************************************)
buildUrl(cfg, path) == cfg.Url \o path

\* http.NewRequest: fails when the URL does not parse.  Every path starts
\* with "/", so the URL parses unless the base URL is the rejected one.
NewRequestOk(cfg, path) == cfg.Url # BadUrl

AuthHeaderBoth(cfg) ==
    IF cfg.ServiceKey # ""
    THEN {<<"X-Service-Key", cfg.ServiceKey>>,
          <<"X-Access-Token", cfg.Username \o ":" \o cfg.Token>>}
    ELSE {<<"X-Access-Token", cfg.Username \o ":" \o cfg.Token>>}

\* The header of the request after lines 40-44, as its set of
\* (name, value) entries.
AuthHeader(cfg) ==
    IF cfg.ServiceKey # ""
    THEN {<<"X-Service-Key", cfg.ServiceKey>>}
    ELSE {<<"X-Access-Token", cfg.Username \o ":" \o cfg.Token>>}

NewRequest(cfg, d) ==
    [method |-> d.method, url |-> buildUrl(cfg, d.path),
     header |-> AuthHeader(cfg), body |-> d.b]

IssueTwice(w, req) == Append(Append(w, req), req)

\* http.DefaultClient.Do(req): the request goes to the transport, once.
Issue(w, req) == Append(w, req)

\* What is left to read of a response body.
Unread(r) == SubSeq(r.Body, r.pos + 1, Len(r.Body))

doRequestStatusExpectedFirst(r, expectedStatus) ==
    IF r.StatusCode = expectedStatus
    THEN [hasResp |-> TRUE, err |-> NoErr, pos |-> r.pos]
    ELSE IF r.StatusCode = StatusUnauthorized
    THEN [hasResp |-> TRUE, err |-> ErrUnauthorized, pos |-> r.pos]
    ELSE IF ~r.readOk
    THEN [hasResp |-> FALSE, err |-> ReadErr, pos |-> r.pos]
    ELSE [hasResp |-> TRUE, err |-> errorsNew(Unread(r)), pos |-> Len(r.Body)]

doRequestStatusStatusText(r, expectedStatus) ==
    IF r.StatusCode = StatusUnauthorized
    THEN [hasResp |-> TRUE, err |-> ErrUnauthorized, pos |-> r.pos]
    ELSE IF r.StatusCode # expectedStatus
    THEN IF ~r.readOk
         THEN [hasResp |-> FALSE, err |-> ReadErr, pos |-> r.pos]
         ELSE [hasResp |-> TRUE, err |-> errorsNew(<<ToString(r.StatusCode)>>),
               pos |-> Len(r.Body)]
    ELSE [hasResp |-> TRUE, err |-> NoErr, pos |-> r.pos]

doRequestStatusReadsFirst(r, expectedStatus) ==
    IF r.StatusCode = StatusUnauthorized
    THEN [hasResp |-> TRUE, err |-> ErrUnauthorized, pos |-> r.pos]
    ELSE IF ~r.readOk
    THEN [hasResp |-> FALSE, err |-> ReadErr, pos |-> r.pos]
    ELSE IF r.StatusCode # expectedStatus
    THEN [hasResp |-> TRUE, err |-> errorsNew(Unread(r)), pos |-> Len(r.Body)]
    ELSE [hasResp |-> TRUE, err |-> NoErr, pos |-> Len(r.Body)]

\* Lines 50-61: the status interpretation of a response the transport
\* delivered.  pos is the body stream's position afterwards.
doRequestStatus(r, expectedStatus) ==
    IF r.StatusCode = StatusUnauthorized
    THEN [hasResp |-> TRUE, err |-> ErrUnauthorized, pos |-> r.pos]
    ELSE IF r.StatusCode # expectedStatus
    THEN IF ~r.readOk
         THEN [hasResp |-> FALSE, err |-> ReadErr, pos |-> r.pos]
         ELSE [hasResp |-> TRUE, err |-> errorsNew(Unread(r)), pos |-> Len(r.Body)]
    ELSE [hasResp |-> TRUE, err |-> NoErr, pos |-> r.pos]

(***************************************************************************)
(* The call-sites                                                          *)
(***************************************************************************)
\* json.NewDecoder(resp.Body).Decode(&v) on the unread tokens t, for a
\* slice ("list") or a pointer ("object") target holding v: EOF on an
\* empty stream, nil for the JSON null, the elements for a value of the
\* target's shape, an error for anything else.
Decode(kind, t, v) ==
    IF t = <<>>
    THEN [err |-> DecodeErr, value |-> v]
    ELSE IF t = <<"null">>
    THEN [err |-> NoErr, value |-> NilValue]
    ELSE IF kind = "list" /\ Len(t) >= 2 /\ t[1] = "[" /\ t[Len(t)] = "]"
    THEN [err |-> NoErr, value |-> [isNil |-> FALSE, items |-> SubSeq(t, 2, Len(t) - 1)]]
    ELSE IF kind = "object" /\ Len(t) >= 2 /\ t[1] = "{" /\ t[Len(t)] = "}"
    THEN [err |-> NoErr, value |-> [isNil |-> FALSE, items |-> SubSeq(t, 2, Len(t) - 1)]]
    ELSE [err |-> DecodeErr, value |-> v]

errReturnWrapped(err) == [result |-> NilValue, err |-> errorsNew(<<err.kind>>)]

\* `return nil, err` (`return err` where the operation has no result).
errReturn(err) == [result |-> NilValue, err |-> err]

decodesAfterAlways(o, d) == o \in ListOps \cup ObjectOps /\ d.hasResp

\* Whether the call-site goes on to decode after doRequest returned d.
decodesAfter(o, d) == o \in ListOps \cup ObjectOps /\ d.err = NoErr

\* The call-site once doRequest has returned d for caller p.
AfterDoRequest(p, d) ==
    /\ dr' = [dr EXCEPT ![p] = [called |-> TRUE, hasResp |-> d.hasResp, err |-> d.err]]
    /\ IF decodesAfter(op[p], d)
       THEN /\ pc' = [pc EXCEPT ![p] = "decode"]
            /\ UNCHANGED ret
       ELSE /\ pc' = [pc EXCEPT ![p] = "done"]
            /\ ret' = [ret EXCEPT ![p] = errReturn(d.err)]

(***************************************************************************)
(* Actions                                                                 *)
(***************************************************************************)
\* NewManager(cfg): every caller is outside a call.
InitWith(cfgs) ==
    /\ config \in cfgs
    /\ pc = [p \in Callers |-> "idle"]
    /\ op = [p \in Callers |-> "none"]
    /\ arg = [p \in Callers |-> NoArg]
    /\ rd = [p \in Callers |-> NoRd]
    /\ wire = [p \in Callers |-> <<>>]
    /\ resp = [p \in Callers |-> NoResp]
    /\ dr = [p \in Callers |-> NoDr]
    /\ dec = [p \in Callers |-> NoDec]
    /\ ret = [p \in Callers |-> NoRet]

Init == InitWith(Configs)

\* A public operation up to its doRequest call: marshal the input, return
\* the codec's error or fix the request descriptor.
Invoke(p, ops) ==
    /\ pc[p] = "idle"
    /\ \E o \in ops, a \in Args :
         LET m == Marshal(o, a) IN
         /\ op' = [op EXCEPT ![p] = o]
         /\ arg' = [arg EXCEPT ![p] = a]
         /\ IF m.err # NoErr
            THEN /\ pc' = [pc EXCEPT ![p] = "done"]
                 /\ ret' = [ret EXCEPT ![p] = errReturn(m.err)]
                 /\ UNCHANGED rd
            ELSE /\ pc' = [pc EXCEPT ![p] = "doRequest"]
                 /\ rd' = [rd EXCEPT ![p] =
                             [path |-> OpPath(o, a), method |-> OpMethod(o),
                              expectedStatus |-> OpExpected(o), b |-> m.b]]
                 /\ UNCHANGED ret
    /\ UNCHANGED <<wire, resp, dr, dec>>

CallStoresUser(p, ops) ==
    /\ Invoke(p, ops)
    /\ config' = [config EXCEPT !.Username = arg'[p].id]

Call(p, ops) ==
    /\ Invoke(p, ops)
    /\ UNCHANGED config

\* doRequest called directly with any descriptor, as package code may.
Execute(p) ==
    /\ pc[p] = "idle"
    /\ \E m \in {"GET", "POST", "DELETE"}, e \in {200, 204, StatusUnauthorized} :
         /\ op' = [op EXCEPT ![p] = "doRequest"]
         /\ rd' = [rd EXCEPT ![p] =
                     [path |-> "/api/containers", method |-> m,
                      expectedStatus |-> e, b |-> <<>>]]
    /\ pc' = [pc EXCEPT ![p] = "doRequest"]
    /\ UNCHANGED <<config, arg, wire, resp, dr, dec, ret>>

\* doRequest lines 34-46: build the request, attach the authentication
\* header and hand the request to the transport.
Send(p) ==
    /\ pc[p] = "doRequest"
    /\ IF NewRequestOk(config, rd[p].path)
       THEN /\ wire' = [wire EXCEPT ![p] = Issue(wire[p], NewRequest(config, rd[p]))]
            /\ pc' = [pc EXCEPT ![p] = "Do"]
            /\ UNCHANGED <<dr, ret>>
       ELSE /\ dr' = [dr EXCEPT ![p] =
                        [called |-> TRUE, hasResp |-> FALSE, err |-> NewRequestErr]]
            /\ pc' = [pc EXCEPT ![p] = "done"]
            /\ ret' = [ret EXCEPT ![p] = errReturn(NewRequestErr)]
            /\ UNCHANGED wire
    /\ UNCHANGED <<config, op, arg, rd, resp, dec>>

\* doRequest lines 46-61 and the call-site's error check: the transport
\* fails or delivers a response, whose status is interpreted.
Receive(p, statuses, bodies) ==
    /\ pc[p] = "Do"
    /\ \/ /\ resp' = [resp EXCEPT ![p] = [NoResp EXCEPT !.got = "err"]]
          /\ AfterDoRequest(p, [hasResp |-> FALSE, err |-> TransportErr])
       \/ \E s \in statuses, body \in bodies, ok \in BOOLEAN :
            LET r == [got |-> "resp", StatusCode |-> s, Body |-> body,
                      pos |-> 0, readOk |-> ok]
                d == doRequestStatus(r, rd[p].expectedStatus)
            IN /\ resp' = [resp EXCEPT ![p] = [r EXCEPT !.pos = d.pos]]
               /\ AfterDoRequest(p, d)
    /\ UNCHANGED <<config, op, arg, rd, wire, dec>>

\* The call-site's decode of the response body and its return.
DecodeBody(p) ==
    /\ pc[p] = "decode"
    /\ LET t == Unread(resp[p])
           r == Decode(OpKind(op[p]), t, OpInitial(op[p]))
       IN /\ dec' = [dec EXCEPT ![p] = [done |-> TRUE, input |-> t]]
          /\ resp' = [resp EXCEPT ![p].pos = Len(resp[p].Body)]
          /\ ret' = [ret EXCEPT ![p] =
                       IF r.err # NoErr
                       THEN errReturn(r.err)
                       ELSE [result |-> r.value, err |-> NoErr]]
    /\ pc' = [pc EXCEPT ![p] = "done"]
    /\ UNCHANGED <<config, op, arg, rd, wire, dr>>

\* The caller takes the result; the call's locals are dropped.
Return(p) ==
    /\ pc[p] = "done"
    /\ pc' = [pc EXCEPT ![p] = "idle"]
    /\ op' = [op EXCEPT ![p] = "none"]
    /\ arg' = [arg EXCEPT ![p] = NoArg]
    /\ rd' = [rd EXCEPT ![p] = NoRd]
    /\ wire' = [wire EXCEPT ![p] = <<>>]
    /\ resp' = [resp EXCEPT ![p] = NoResp]
    /\ dr' = [dr EXCEPT ![p] = NoDr]
    /\ dec' = [dec EXCEPT ![p] = NoDec]
    /\ ret' = [ret EXCEPT ![p] = NoRet]
    /\ UNCHANGED config

\* One caller at a time, every operation and every answer.
Next ==
    \E p \in Solo :
        \/ Call(p, Ops)
        \/ Execute(p)
        \/ Send(p)
        \/ Receive(p, Statuses, Bodies)
        \/ DecodeBody(p)
        \/ Return(p)

Spec == Init /\ [][Next]_vars

\* Several callers inside calls on the same Manager, interleaved.
InitConc == InitWith(ConcConfigs)

NextConc ==
    \E p \in Callers :
        \/ Call(p, ConcOps)
        \/ Send(p)
        \/ Receive(p, ConcStatuses, ConcBodies)
        \/ DecodeBody(p)
        \/ Return(p)

SpecConc == InitConc /\ [][NextConc]_vars

(***************************************************************************)
(* Properties                                                              *)
(***************************************************************************)
\* doRequest returned to caller p after the transport delivered a response.
Answered(p) == dr[p].called /\ resp[p].got = "resp"

\* C1: whenever the transport call succeeds and the response status is
\* 401, doRequest returns the Unauthorized sentinel, whatever the expected
\* status (401 included) and whatever the body: the call neither succeeds
\* nor yields an unexpected-status error.
C1_UnauthorizedFirst ==
    \A p \in Callers :
        (Answered(p) /\ resp[p].StatusCode = 401) =>
            /\ dr[p].err.kind = "ErrUnauthorized"
            /\ dr[p].err # NoErr
            /\ dr[p].err.kind # "errorString"

C1_Witness ==
    \E p \in Callers :
        /\ Answered(p)
        /\ resp[p].StatusCode = 401
        /\ rd[p].expectedStatus = 401
        /\ resp[p].Body # <<>>
        /\ dr[p].err = ErrUnauthorized

\* C2: every request handed to the transport carries exactly one
\* authentication header: X-Service-Key = ServiceKey and no X-Access-Token
\* when ServiceKey is non-empty (also when Username and Token are set),
\* otherwise X-Access-Token = Username ":" Token and no X-Service-Key,
\* which is ":" when no credential is configured.
C2_OneAuthHeader ==
    \A p \in Callers : \A i \in 1..Len(wire[p]) :
        LET h == wire[p][i].header IN
        /\ Cardinality(h) = 1
        /\ config.ServiceKey # "" =>
              /\ <<"X-Service-Key", config.ServiceKey>> \in h
              /\ \A e \in h : e[1] # "X-Access-Token"
        /\ config.ServiceKey = "" =>
              /\ <<"X-Access-Token", config.Username \o ":" \o config.Token>> \in h
              /\ \A e \in h : e[1] # "X-Service-Key"
        /\ (config.ServiceKey = "" /\ config.Username = "" /\ config.Token = "") =>
              h = {<<"X-Access-Token", ":">>}

C2_Witness ==
    \E p \in Callers :
        /\ wire[p] # <<>>
        /\ config.ServiceKey # "" /\ config.Username # "" /\ config.Token # ""
        /\ wire[p][1].header = {<<"X-Service-Key", "sk">>}

\* C3 as stated: whenever the transport call succeeds and the status is
\* neither 401 nor the expected status, doRequest fails with an
\* unexpected-status error whose message is the whole response body, and
\* with no other kind of error.
C3_AlwaysBodyText ==
    \A p \in Callers :
        (Answered(p) /\ resp[p].StatusCode # 401
                     /\ resp[p].StatusCode # rd[p].expectedStatus) =>
            dr[p].err = [kind |-> "errorString", msg |-> resp[p].Body]

\* C3 as amended: for such a status doRequest fails; when the body is read
\* to completion the error is the unexpected-status error whose message is
\* the whole body, unparsed, and when reading the body fails the error is
\* that read error and no response is returned.
C3_BodyTextUnlessReadFails ==
    \A p \in Callers :
        (Answered(p) /\ resp[p].StatusCode # 401
                     /\ resp[p].StatusCode # rd[p].expectedStatus) =>
            IF resp[p].readOk
            THEN /\ dr[p].err = [kind |-> "errorString", msg |-> resp[p].Body]
                 /\ dr[p].hasResp
                 /\ resp[p].pos = Len(resp[p].Body)
            ELSE /\ dr[p].err.kind = "read"
                 /\ ~dr[p].hasResp

C3_Witness ==
    \E p \in Callers :
        /\ Answered(p)
        /\ op[p] = "Destroy"
        /\ resp[p].StatusCode = 500
        /\ resp[p].Body = <<"forbidden">>
        /\ dr[p].err.kind = "errorString"
        /\ dr[p].err.msg = <<"forbidden">>

\* C4: whenever the transport call succeeds with the expected status, and
\* that status is not 401, doRequest returns the response and a nil error
\* having read nothing of the body, so that the decoder consumes the body
\* from its first token; and doRequest returns a nil error in no other case.
C4_SuccessLeavesBody ==
    \A p \in Callers :
        /\ (Answered(p) /\ resp[p].StatusCode = rd[p].expectedStatus
                        /\ resp[p].StatusCode # 401) =>
              /\ dr[p].err = NoErr
              /\ dr[p].hasResp
              /\ ~dec[p].done => resp[p].pos = 0
              /\ dec[p].done => dec[p].input = resp[p].Body
        /\ (dr[p].called /\ dr[p].err = NoErr) =>
              /\ resp[p].got = "resp"
              /\ resp[p].StatusCode = rd[p].expectedStatus
              /\ resp[p].StatusCode # 401

C4_Witness ==
    \E p \in Callers :
        /\ Answered(p)
        /\ dr[p].err = NoErr
        /\ dec[p].done
        /\ resp[p].Body = <<"[", "a", "b", "]">>
        /\ dec[p].input = resp[p].Body

\* C5 as stated: every call of a public operation has issued exactly one
\* HTTP request when it returns.
C5_ExactlyOneRequest ==
    \A p \in Callers :
        (pc[p] = "done" /\ op[p] \in Ops) => Len(wire[p]) = 1

\* C5 as amended: a call of a public operation never issues more than one
\* HTTP request; when it returns it has issued none if json.Marshal or
\* http.NewRequest failed and exactly one otherwise, a transport failure
\* being returned after that single attempt.
C5_AtMostOneRequest ==
    \A p \in Callers :
        /\ Len(wire[p]) <= 1
        /\ (pc[p] = "done" /\ op[p] \in Ops) =>
              /\ ret[p].err.kind \in {"marshal", "newRequest"} => Len(wire[p]) = 0
              /\ ret[p].err.kind \notin {"marshal", "newRequest"} => Len(wire[p]) = 1
              /\ resp[p].got = "err" =>
                    (ret[p].err.kind = "transport" /\ Len(wire[p]) = 1)

C5_Witness ==
    \E p \in Callers :
        /\ pc[p] = "done"
        /\ op[p] = "Run"
        /\ resp[p].got = "err"
        /\ ret[p].err = TransportErr
        /\ Len(wire[p]) = 1

\* C6: a list operation that returns a nil error returns a sequence that
\* is not nil.
C6_ListNeverNil ==
    \A p \in Callers :
        (pc[p] = "done" /\ op[p] \in ListOps /\ ret[p].err = NoErr) =>
            ~ret[p].result.isNil

\* The method and expected status of each operation in the operation table.
OperationTable ==
    { <<"Containers", "GET", 200>>, <<"Run", "POST", 201>>,
      <<"Destroy", "DELETE", 204>>,
      <<"Engines", "GET", 200>>, <<"AddEngine", "POST", 201>>,
      <<"RemoveEngine", "DELETE", 204>>,
      <<"Info", "GET", 200>>, <<"Events", "GET", 200>>,
      <<"Accounts", "GET", 200>>, <<"AddAccount", "POST", 204>>,
      <<"DeleteAccount", "DELETE", 204>>,
      <<"Roles", "GET", 200>>, <<"Role", "GET", 200>>,
      <<"Login", "POST", 200>>, <<"ChangePassword", "POST", 200>>,
      <<"ServiceKeys", "GET", 200>>, <<"NewServiceKey", "POST", 200>>,
      <<"RemoveServiceKey", "DELETE", 204>> }

TableOps == { e[1] : e \in OperationTable }

\* C7: each operation of the table passes the table's method and expected
\* status to doRequest, and for every response status the executor step
\* succeeds exactly when the status is the table's and is not 401.
C7_OperationTable ==
    \A p \in Callers :
        (op[p] \in TableOps /\ rd[p] # NoRd) =>
            /\ <<op[p], rd[p].method, rd[p].expectedStatus>> \in OperationTable
            /\ \A i \in 1..Len(wire[p]) : <<op[p], wire[p][i].method,
                                            rd[p].expectedStatus>> \in OperationTable
            /\ Answered(p) =>
                  (dr[p].err = NoErr <=>
                      /\ <<op[p], rd[p].method, resp[p].StatusCode>> \in OperationTable
                      /\ resp[p].StatusCode # 401)

C7_Witness ==
    \E p \in Callers :
        /\ op[p] = "AddAccount"
        /\ Answered(p)
        /\ wire[p][1].method = "POST"
        /\ resp[p].StatusCode = 204
        /\ dr[p].err = NoErr

\* What a call of operation o with input a returns when it runs alone on a
\* Manager configured with cfg and the transport answers r.
AloneReturn(cfg, o, a, r) ==
    IF o \in RecordInputOps /\ ~a.encodable
    THEN [result |-> NilValue, err |-> MarshalErr]
    ELSE IF cfg.Url = BadUrl
    THEN [result |-> NilValue, err |-> NewRequestErr]
    ELSE IF r.got = "err"
    THEN [result |-> NilValue, err |-> TransportErr]
    ELSE IF r.StatusCode = 401
    THEN [result |-> NilValue, err |-> ErrUnauthorized]
    ELSE IF <<o, OpMethod(o), r.StatusCode>> \notin OperationTable
    THEN [result |-> NilValue,
          err |-> IF r.readOk THEN [kind |-> "errorString", msg |-> r.Body]
                  ELSE ReadErr]
    ELSE IF o \in NoResultOps
    THEN [result |-> NilValue, err |-> NoErr]
    ELSE LET v == Decode(OpKind(o), r.Body, OpInitial(o)) IN
         IF v.err # NoErr THEN [result |-> NilValue, err |-> v.err]
         ELSE [result |-> v.value, err |-> NoErr]

IsolatedCalls ==
    \A p \in Callers :
        /\ \A i \in 1..Len(wire[p]) :
              wire[p][i].header =
                  IF config.ServiceKey # ""
                  THEN {<<"X-Service-Key", config.ServiceKey>>}
                  ELSE {<<"X-Access-Token", config.Username \o ":" \o config.Token>>}
        /\ pc[p] = "done" => ret[p] = AloneReturn(config, op[p], arg[p], resp[p])

\* C8: no step of any call changes the configuration, and under every
\* interleaving of concurrent calls each call attaches the header the
\* configuration determines and returns what it would return alone against
\* the same answer of the server.
C8_NoSharedWrites ==
    /\ []IsolatedCalls
    /\ [][config' = config]_vars

C8_Witness ==
    \E p \in Callers : \E q \in Callers :
        /\ p # q
        /\ pc[p] = "done" /\ op[p] = "Containers" /\ ret[p].err = ErrUnauthorized
        /\ pc[q] = "done" /\ op[q] = "Destroy" /\ ret[q].err = NoErr
        /\ wire[p] # <<>> /\ wire[q] # <<>>

\* C9: in an operation with a typed input the input is encoded before the
\* request is issued and the body is decoded only after doRequest returned
\* a nil error: a failed encoding is returned with no request issued, and
\* a decode, and so a decode error, happens only on a response whose
\* status is the expected one.
C9_EncodeSendDecode ==
    \A p \in Callers :
        op[p] \in Ops =>
            /\ (op[p] \in RecordInputOps /\ ~arg[p].encodable) =>
                  /\ pc[p] = "done"
                  /\ ret[p].err.kind = "marshal"
                  /\ wire[p] = <<>>
                  /\ ~dr[p].called
                  /\ ~dec[p].done
            /\ ret[p].err.kind = "marshal" => wire[p] = <<>>
            /\ (wire[p] # <<>> /\ op[p] \in RecordInputOps \cup MapInputOps) =>
                  wire[p][1].body # <<>>
            /\ dec[p].done =>
                  /\ dr[p].called
                  /\ dr[p].err = NoErr
                  /\ resp[p].StatusCode = rd[p].expectedStatus
            /\ ret[p].err.kind = "decode" =>
                  /\ dec[p].done
                  /\ resp[p].got = "resp"
                  /\ resp[p].StatusCode = rd[p].expectedStatus

C9_Witness ==
    \E p \in Callers :
        /\ op[p] = "Run"
        /\ pc[p] = "done"
        /\ wire[p] # <<>>
        /\ resp[p].StatusCode = 201
        /\ ret[p].err.kind = "decode"

\* C10: when doRequest returns an error, the operation returns that very
\* error, decodes nothing and returns a nil result.
C10_ErrorUnchanged ==
    \A p \in Callers :
        (op[p] \in Ops /\ dr[p].called /\ dr[p].err # NoErr) =>
            /\ pc[p] = "done"
            /\ ret[p].err = dr[p].err
            /\ ret[p].result.isNil
            /\ ~dec[p].done
            /\ resp[p].got = "resp" =>
                  (resp[p].pos = 0 \/ dr[p].err.kind = "errorString")

C10_Witness ==
    \E p \in Callers :
        /\ op[p] = "Containers"
        /\ pc[p] = "done"
        /\ dr[p].err.kind = "errorString"
        /\ ret[p].err = dr[p].err
        /\ ret[p].err.msg = <<"forbidden">>

====
